---- MODULE Spec2Model ----
(***************************************************************************)
(* The multitenancy resolution middleware of express-multitenancy          *)
(* (lib/middleware.ts) and the AsyncLocalStorage channel it seeds          *)
(* (lib/stores.ts), as a state machine: one pass of the async middleware   *)
(* per request, suspended at the strategy and store awaits; and the        *)
(* BasePathStrategy of lib/strategies.ts with its path rebase.             *)
(***************************************************************************)
EXTENDS Integers, Sequences, FiniteSets, TLC

\* ---------------------------------------------------------------- bounds
MaxStrategies == 2
NumRequests == 2
MaxPathLen == 4
MaxPosition == 2
MaxCalls == 2
MaxInitial == 2
MaxOps == 2

\* ---------------------------------------------------------------- values
Null == "<null>"
Unset == "<undefined>"
EmptyStr == ""
Rejected == "<rejected>"
Thrown == "<thrown>"

TenantIds == {"tenant1", "tenant2"}

NullTenant == [kind |-> "null"]
UnsetTenant == [kind |-> "undefined"]
RejectedLookup == [kind |-> "rejected"]
Tenants ==
  { [kind |-> "tenant", id |-> "tenant1", name |-> "Tenant 1"],
    [kind |-> "tenant", id |-> "tenant2", name |-> "Tenant 2"] }

\* what a strategy's resolveTenantId can settle to after the await
StrategyOutcomes == {Null, EmptyStr, Rejected} \cup TenantIds
\* what store.getById can settle to
StoreOutcomes == Tenants \cup {NullTenant, RejectedLookup}
\* what the continuation does when it is called
NextBehaviours == {"return", "throw"}
\* what an onTenantNotFound handler does when it is called
HandlerBehaviours == {"respond", "callNext", "throw", "reject"}

\* the two AsyncLocalStorage names of the sources: the one the middleware
\* imports and runs, and the one lib/stores.ts exports
Channels == {"tenantStorage", "tenantContext"}
MiddlewareChannel == "tenantStorage"
PublicChannel == "tenantContext"
\* what the import of tenantStorage is bound to at run time: nothing
\* (lib/stores.ts has no such export) or the instance of lib/stores.js
Bindings == {"unbound", "stale"}

\* the strategies of the library as the middleware sees them: a
\* BasePathStrategy constructed with rebasePath: true rewrites the request
\* when it finds its segment, every other strategy only reads the request
StrategyKinds == {"plain", "rebase"}
\* the request as Express hands it to the middleware, tenant field aside
ReceivedRequest ==
  [path |-> "received", originalUrl |-> "received", others |-> "received"]

VARIABLES
  strategies, kinds, onTenantNotFound, debug, binding, requests,
  pc, idx, tenantId, tenant,
  invoked, results, getByIdCalls, lookups, handlerCalls, nextCalls, seeds,
  result, tasks, reads, outerStores, outerReads, reqProps, logs,
  options, req, received, calls,
  resolved, tenants, puts, ops

config == <<strategies, kinds, onTenantNotFound, debug, binding, requests>>
\* the state of the middleware and of the requests passing through it
mwVars == <<strategies, kinds, onTenantNotFound, debug, binding, requests,
            pc, idx, tenantId, tenant,
            invoked, results, getByIdCalls, lookups, handlerCalls, nextCalls,
            seeds, result, tasks, reads, outerStores, outerReads, reqProps,
            logs>>
\* a BasePathStrategy instance, the request handed to it and its calls
bpVars == <<options, req, received, calls>>
\* the last call of a header, host, route or claim strategy
stVars == <<resolved>>
\* an InMemoryStore instance and the operations called on it
storeVars == <<tenants, puts, ops>>
libVars == <<stVars, storeVars>>
vars == <<mwVars, bpVars, libVars>>

AllRequests == 1..NumRequests

\* ------------------------------------------------------ AsyncLocalStorage
\* the stores of the execution context that calls the middleware
CallerStores == [c \in Channels |-> Unset]

\* storage.run(v, fn): fn runs with the channel's store replaced by v
AlsRun(channel, stores, v) == [stores EXCEPT ![channel] = v]

\* storage.getStore() in an execution context carrying `stores`
GetStore(channel, stores) == stores[channel]

\* ------------------------------------------------------------ truthiness
\* an empty string counts as a match
Truthy_emptyMatches(x) == x \notin {Null, Rejected, Thrown}

\* if (resolvedTenantId)  /  if (!tenantId)
Truthy(x) == x \notin {Null, EmptyStr, Rejected, Thrown}

\* if (!tenant)
TenantFound(t) == t.kind = "tenant"

\* a strategy failure is rethrown instead of caught
StrategyStep_rethrows(o) ==
  IF Truthy(o) THEN "adopt" ELSE IF o = Rejected THEN "propagate" ELSE "continue"

\* try { id = await strategy.resolveTenantId(req); if (id) { ...; break; } }
\* catch (error) { log(...) }: a match ends the loop, anything else, a
\* failure included, goes on to the next strategy
StrategyStep(o) == IF Truthy(o) THEN "adopt" ELSE "continue"

\* ------------------------------------------------- synchronous code blocks
\* the part of a request's state a synchronous block of the middleware writes
Frame(r) ==
  [ tenant |-> tenant[r], nextCalls |-> nextCalls[r],
    handlerCalls |-> handlerCalls[r], seeds |-> seeds[r],
    tasks |-> tasks[r], result |-> result[r], outer |-> outerStores[r],
    props |-> reqProps[r], logs |-> logs[r], debug |-> debug[r] ]

\* the debug branch of log() does more than print: it clears req.tenant
Log_clearsTenant(f, message) ==
  IF f.debug THEN [f EXCEPT !.logs = Append(@, message), !.tenant = NullTenant]
  ELSE f

\* const log = (message) => { if (debug) console.log(...) }
Log(f, message) == IF f.debug THEN [f EXCEPT !.logs = Append(@, message)] ELSE f

\* a call of next() by `by` in an execution context carrying `stores`; a
\* continuation that returns leaves one asynchronous task behind, which
\* inherits the stores
InvokeNext(f, by, stores, nb) ==
  [f EXCEPT !.nextCalls = Append(@, [by |-> by, tenant |-> f.tenant,
                                     stores |-> stores, props |-> f.props,
                                     does |-> nb]),
            !.tasks = IF nb = "return" THEN Append(@, [stores |-> stores]) ELSE @]

\* the value is entered into the calling execution context
\* (storage.enterWith(v); next()) instead of scoped to the callback
Run_entersWith(f, v, nb) ==
  IF binding = "unbound"
  THEN [f |-> f, thrown |-> "TypeError"]
  ELSE [f |-> InvokeNext([f EXCEPT !.seeds = Append(@, v),
                                   !.outer = AlsRun(MiddlewareChannel, @, v)],
                         "middleware", AlsRun(MiddlewareChannel, f.outer, v), nb),
        thrown |-> IF nb = "throw" THEN "NextError" ELSE "none"]

\* tenantStorage.run(v, next): next runs with the channel's store replaced
\* by v; the stores of the calling execution context are as before once run
\* has returned or thrown
Run(f, v, nb) ==
  IF binding = "unbound"
  THEN [f |-> f, thrown |-> "TypeError"]
  ELSE [f |-> InvokeNext([f EXCEPT !.seeds = Append(@, v)], "middleware",
                         AlsRun(MiddlewareChannel, f.outer, v), nb),
        thrown |-> IF nb = "throw" THEN "NextError" ELSE "none"]

\* tenantStorage.run(tenantId, () => { log(...); next(); })
RunLogged(f, v, nb) ==
  Run(IF binding = "unbound" THEN f ELSE Log(f, "set context"), v, nb)

\* the async function returns the value or throws what the block threw
Settle(out) ==
  [out.f EXCEPT !.result = IF out.thrown = "none" THEN "fulfilled" ELSE out.thrown]

\* the no-match branch forgets req.tenant = null
NoTenantId_keepsTenant(f, nb) == Settle(Run(Log(f, "no tenant"), Null, nb))

\* if (!tenantId) { req.tenant = null; return tenantStorage.run(null, next); }
NoTenantId(f, nb) ==
  Settle(Run([Log(f, "no tenant") EXCEPT !.tenant = NullTenant], Null, nb))

\* the catch block forgets req.tenant = null
CatchBlock_keepsTenant(f, nb) == Settle(Run(Log(f, "store error"), Null, nb))

\* catch (error) { req.tenant = null; return tenantStorage.run(null, next); }
CatchBlock(f, nb) ==
  Settle(Run([Log(f, "store error") EXCEPT !.tenant = NullTenant], Null, nb))

\* a block inside the try: what it throws goes to the catch block
Try(out, nb2) ==
  IF out.thrown = "none" THEN Settle(out) ELSE CatchBlock(out.f, nb2)

\* onTenantNotFound(req, res, next, tenantId)
InvokeHandler(f, r, id, hb, nb) ==
  LET called == [f EXCEPT !.handlerCalls =
                   Append(@, [req |-> r, res |-> r, next |-> r, tenantId |-> id,
                              tenant |-> f.tenant, stores |-> f.outer,
                              props |-> f.props, does |-> hb])]
  IN CASE hb = "respond"  -> [f |-> called, thrown |-> "none", rejected |-> FALSE]
       [] hb = "callNext" -> [f |-> InvokeNext(called, "handler", f.outer, nb),
                              thrown |-> IF nb = "throw" THEN "NextError" ELSE "none",
                              rejected |-> FALSE]
       [] hb = "throw"    -> [f |-> called, thrown |-> "HandlerError", rejected |-> FALSE]
       [] hb = "reject"   -> [f |-> called, thrown |-> "none", rejected |-> TRUE]

\* no handler: req.tenant = null; return tenantStorage.run(null, next);
\* inside the try
ContinueWithNull(f, nb1, nb2) ==
  Try(Run([f EXCEPT !.tenant = NullTenant], Null, nb1), nb2)

\* the channel is seeded with the id of the record instead of the identifier
\* that was looked up
StoreResolved_seedsRecordId(f, r, id, t, hb, nb1, nb2) ==
  IF ~TenantFound(t)
  THEN IF onTenantNotFound
       THEN LET h == InvokeHandler(Log(f, "not found"), r, id, hb, nb1)
            IN IF h.rejected
               THEN [h.f EXCEPT !.result = "HandlerError"]
               ELSE Try([f |-> h.f, thrown |-> h.thrown], nb2)
       ELSE ContinueWithNull(Log(f, "not found"), nb1, nb2)
  ELSE Try(RunLogged([f EXCEPT !.tenant = t], t.id, nb1), nb2)

\* the try body after `await store.getById(tenantId)` has resolved to t
StoreResolved(f, r, id, t, hb, nb1, nb2) ==
  IF ~TenantFound(t)
  THEN IF onTenantNotFound
       THEN LET h == InvokeHandler(Log(f, "not found"), r, id, hb, nb1)
            IN IF h.rejected
               THEN [h.f EXCEPT !.result = "HandlerError"]
               ELSE Try([f |-> h.f, thrown |-> h.thrown], nb2)
       ELSE ContinueWithNull(Log(f, "not found"), nb1, nb2)
  ELSE Try(RunLogged([f EXCEPT !.tenant = t], id, nb1), nb2)

Commit(r, f) ==
  /\ tenant' = [tenant EXCEPT ![r] = f.tenant]
  /\ nextCalls' = [nextCalls EXCEPT ![r] = f.nextCalls]
  /\ handlerCalls' = [handlerCalls EXCEPT ![r] = f.handlerCalls]
  /\ seeds' = [seeds EXCEPT ![r] = f.seeds]
  /\ tasks' = [tasks EXCEPT ![r] = f.tasks]
  /\ result' = [result EXCEPT ![r] = f.result]
  /\ outerStores' = [outerStores EXCEPT ![r] = f.outer]
  /\ reqProps' = [reqProps EXCEPT ![r] = f.props]
  /\ logs' = [logs EXCEPT ![r] = f.logs]

\* the messages the loop logs for request r when its strategy results grow
\* to `all`: one per strategy that threw or rejected
LoopLogs(r, all) ==
  LET new == SubSeq(all, Len(results[r]) + 1, Len(all))
      failed == SelectSeq(new, LAMBDA o : o \in {Rejected, Thrown})
  IN  IF debug[r]
      THEN logs[r] \o [k \in 1..Len(failed) |-> "strategy error"]
      ELSE logs[r]

\* ---------------------------------------- what a strategy does to the request
\* a rebase-enabled BasePathStrategy rewrites the request on every call
StrategyRewrites_onEveryCall(kind, o) == kind = "rebase"

\* BasePathStrategy.resolveTenantId: if (tenantId && this.rebasePath) { ... }
\* return tenantId; the other strategies only read the request
StrategyRewrites(kind, o) == kind = "rebase" /\ Truthy(o)

\* the rebase also replaces another property of the request
Rebased_touchesOthers(p) ==
  [p EXCEPT !.path = "rebased", !.originalUrl = "rebased", !.others = "changed"]

\* Object.defineProperty(req, 'path', ...) and (req, 'originalUrl', ...)
Rebased(p) == [p EXCEPT !.path = "rebased", !.originalUrl = "rebased"]

\* the request after `await strategy.resolveTenantId(req)` has settled to o
StrategyEffect(kind, o, p) == IF StrategyRewrites(kind, o) THEN Rebased(p) ELSE p

\* ------------------------------------------------------- the strategy loop
\* a strategy that rejected is invoked again before the loop goes on
Loop_retriesFailed(r, i, inv, res, props) ==
  LET n == Len(strategies) IN
  IF res # <<>> /\ res[Len(res)] = Rejected /\ Len(inv) <= n
  THEN /\ invoked' = [invoked EXCEPT ![r] = Append(inv, i - 1)]
       /\ results' = [results EXCEPT ![r] = res]
       /\ idx' = [idx EXCEPT ![r] = i - 1]
       /\ pc' = [pc EXCEPT ![r] = "awaitStrategy"]
       /\ logs' = [logs EXCEPT ![r] = LoopLogs(r, res)]
       /\ reqProps' = [reqProps EXCEPT ![r] = props]
       /\ UNCHANGED <<tenant, nextCalls, handlerCalls, seeds, tasks, result,
                      outerStores>>
  ELSE \E j \in i..(n + 1) :
    LET throwers == [k \in 1..(j - i) |-> i + k - 1]
        throws == [k \in 1..(j - i) |-> Thrown]
    IN IF j <= n
       THEN /\ invoked' = [invoked EXCEPT ![r] = inv \o throwers \o <<j>>]
            /\ results' = [results EXCEPT ![r] = res \o throws]
            /\ idx' = [idx EXCEPT ![r] = j]
            /\ pc' = [pc EXCEPT ![r] = "awaitStrategy"]
            /\ logs' = [logs EXCEPT ![r] = LoopLogs(r, res \o throws)]
            /\ reqProps' = [reqProps EXCEPT ![r] = props]
            /\ UNCHANGED <<tenant, nextCalls, handlerCalls, seeds, tasks, result,
                           outerStores>>
       ELSE /\ invoked' = [invoked EXCEPT ![r] = inv \o throwers]
            /\ results' = [results EXCEPT ![r] = res \o throws]
            /\ idx' = [idx EXCEPT ![r] = j]
            /\ pc' = [pc EXCEPT ![r] = "done"]
            /\ \E nb \in NextBehaviours :
                 Commit(r, NoTenantId([Frame(r) EXCEPT
                                         !.logs = LoopLogs(r, res \o throws),
                                         !.props = props], nb))

\* for (const strategy of strategies) from position i on, the request being
\* as the strategy awaited last has left it (props): the strategies
\* i..j-1 throw synchronously (caught, the loop goes on), strategy j
\* returns and is awaited; j past the end is the end of the loop
Loop(r, i, inv, res, props) ==
  LET n == Len(strategies) IN
  \E j \in i..(n + 1) :
    LET throwers == [k \in 1..(j - i) |-> i + k - 1]
        throws == [k \in 1..(j - i) |-> Thrown]
    IN IF j <= n
       THEN /\ invoked' = [invoked EXCEPT ![r] = inv \o throwers \o <<j>>]
            /\ results' = [results EXCEPT ![r] = res \o throws]
            /\ idx' = [idx EXCEPT ![r] = j]
            /\ pc' = [pc EXCEPT ![r] = "awaitStrategy"]
            /\ logs' = [logs EXCEPT ![r] = LoopLogs(r, res \o throws)]
            /\ reqProps' = [reqProps EXCEPT ![r] = props]
            /\ UNCHANGED <<tenant, nextCalls, handlerCalls, seeds, tasks, result,
                           outerStores>>
       ELSE /\ invoked' = [invoked EXCEPT ![r] = inv \o throwers]
            /\ results' = [results EXCEPT ![r] = res \o throws]
            /\ idx' = [idx EXCEPT ![r] = j]
            /\ pc' = [pc EXCEPT ![r] = "done"]
            /\ \E nb \in NextBehaviours :
                 Commit(r, NoTenantId([Frame(r) EXCEPT
                                         !.logs = LoopLogs(r, res \o throws),
                                         !.props = props], nb))

\* ---------------------------------------------------------------- actions
\* Express calls the middleware for request r
MiddlewareCall(r) ==
  /\ r \in requests
  /\ pc[r] = "start"
  /\ Loop(r, 1, <<>>, <<>>, reqProps[r])
  /\ UNCHANGED <<config, tenantId, getByIdCalls, lookups, reads, outerReads,
                 bpVars, libVars>>

\* `await strategy.resolveTenantId(req)` settles
StrategySettles(r) ==
  /\ pc[r] = "awaitStrategy"
  /\ \E o \in StrategyOutcomes :
       CASE StrategyStep(o) = "adopt" ->
              /\ results' = [results EXCEPT ![r] = Append(@, o)]
              /\ tenantId' = [tenantId EXCEPT ![r] = o]
              /\ getByIdCalls' = [getByIdCalls EXCEPT ![r] = Append(@, o)]
              /\ pc' = [pc EXCEPT ![r] = "awaitStore"]
              /\ reqProps' = [reqProps EXCEPT ![r] =
                                StrategyEffect(kinds[idx[r]], o, @)]
              /\ logs' = [logs EXCEPT ![r] =
                            IF debug[r] THEN Append(@, "resolved") ELSE @]
              /\ UNCHANGED <<invoked, idx, tenant, nextCalls, handlerCalls,
                             seeds, tasks, result, outerStores>>
         [] StrategyStep(o) = "continue" ->
              /\ Loop(r, idx[r] + 1, invoked[r], Append(results[r], o),
                      StrategyEffect(kinds[idx[r]], o, reqProps[r]))
              /\ UNCHANGED <<tenantId, getByIdCalls>>
         [] OTHER ->
              \* an error that leaves the async function rejects its promise
              /\ results' = [results EXCEPT ![r] = Append(@, o)]
              /\ result' = [result EXCEPT ![r] = "StrategyError"]
              /\ pc' = [pc EXCEPT ![r] = "done"]
              /\ UNCHANGED <<invoked, idx, tenant, nextCalls, handlerCalls,
                             seeds, tasks, tenantId, getByIdCalls, outerStores,
                             reqProps, logs>>
  /\ UNCHANGED <<config, lookups, reads, outerReads, bpVars, libVars>>

\* `await store.getById(tenantId)` settles
StoreSettles(r) ==
  /\ pc[r] = "awaitStore"
  /\ \E o \in StoreOutcomes, hb \in HandlerBehaviours, nb1, nb2 \in NextBehaviours :
       /\ lookups' = [lookups EXCEPT ![r] = Append(@, o)]
       /\ Commit(r, IF o = RejectedLookup
                    THEN CatchBlock(Frame(r), nb1)
                    ELSE StoreResolved(Frame(r), r, tenantId[r], o, hb, nb1, nb2))
  /\ pc' = [pc EXCEPT ![r] = "done"]
  /\ UNCHANGED <<config, idx, tenantId, invoked, results, getByIdCalls, reads,
                 outerReads, bpVars, libVars>>

\* an asynchronous task left behind by the continuation runs and reads the
\* channels
DescendantTask(r) ==
  /\ tasks[r] # <<>>
  /\ reads' = [reads EXCEPT ![r] = Append(@, Head(tasks[r]).stores)]
  /\ tasks' = [tasks EXCEPT ![r] = Tail(@)]
  /\ UNCHANGED <<config, pc, idx, tenantId, tenant, invoked, results,
                 getByIdCalls, lookups, handlerCalls, nextCalls, seeds, result,
                 outerStores, outerReads, reqProps, logs, bpVars, libVars>>

\* the code that called the middleware reads the channels once the call has
\* completed, outside the continuation's call chain
CallerRead(r) ==
  /\ pc[r] = "done"
  /\ outerReads[r] = <<>>
  /\ outerReads' = [outerReads EXCEPT ![r] = Append(@, outerStores[r])]
  /\ UNCHANGED <<config, pc, idx, tenantId, tenant, invoked, results,
                 getByIdCalls, lookups, handlerCalls, nextCalls, seeds, result,
                 tasks, reads, outerStores, reqProps, logs, bpVars, libVars>>

\* -------------------------------------------------------- BasePathStrategy
\* strings are sequences of characters
PathChars == {"/", "t", "a"}

\* what resolveTenantId returns or how it settles
NullId == [kind |-> "null"]
UndefinedId == [kind |-> "undefined"]
RejectedId == [kind |-> "rejected"]
Id(segment) == [kind |-> "id", value |-> segment]

\* path.split('/')
RECURSIVE Split(_)
Split(s) ==
  IF \A k \in 1..Len(s) : s[k] # "/"
  THEN <<s>>
  ELSE LET k == CHOOSE k \in 1..Len(s) :
                  s[k] = "/" /\ \A j \in 1..(k - 1) : s[j] # "/"
       IN  <<SubSeq(s, 1, k - 1)>> \o Split(SubSeq(s, k + 1, Len(s)))

\* path.split('/').filter(segment => segment.length > 0)
Segments(path) == SelectSeq(Split(path), LAMBDA segment : Len(segment) > 0)

\* segments.length > index ? segments[index] : null
TenantIdAt(segments, index) ==
  IF Len(segments) > index
  THEN IF index >= 0 THEN Id(segments[index + 1]) ELSE UndefinedId
  ELSE NullId

\* newSegments.splice(index, 1)
Splice(segments, index) ==
  LET n == Len(segments)
      start == IF index < 0
               THEN (IF n + index > 0 THEN n + index ELSE 0)
               ELSE (IF index < n THEN index ELSE n)
  IN  SubSeq(segments, 1, start) \o SubSeq(segments, start + 2, n)

\* newSegments.join('/')
RECURSIVE Join(_)
Join(segments) ==
  IF segments = <<>> THEN <<>>
  ELSE IF Len(segments) = 1 THEN segments[1]
  ELSE segments[1] \o <<"/">> \o Join(Tail(segments))

\* '/' + newSegments.join('/')
NewPath(segments, index) == <<"/">> \o Join(Splice(segments, index))

\* originalUrl.indexOf(path): the first occurrence, -1 when there is none
IndexOf(s, sub) ==
  LET At == {i \in 0..(Len(s) - Len(sub)) : SubSeq(s, i + 1, i + Len(sub)) = sub}
  IN  IF At = {} THEN -1 ELSE CHOOSE i \in At : \A j \in At : i <= j

\* s.substring(a, b) for 0 <= a <= b <= s.length
Substring(s, a, b) == SubSeq(s, a + 1, b)

\* the URL as received stays on the request
NewOriginalUrl_keepsReceived(originalUrl, path, newPath) == originalUrl

\* what req.originalUrl returns after the rebase
NewOriginalUrl(originalUrl, path, newPath) ==
  LET pathIndex == IndexOf(originalUrl, path)
  IN  IF pathIndex >= 0
      THEN Substring(originalUrl, 0, pathIndex) \o newPath
             \o Substring(originalUrl, pathIndex + Len(path), Len(originalUrl))
      ELSE originalUrl

\* the option is not consulted
ShouldRebase_ignoresOption(id, rebasePath) == id.kind = "id"

\* if (tenantId && this.options.rebasePath)
ShouldRebase(id, rebasePath) == id.kind = "id" /\ rebasePath

\* Object.defineProperty(req, 'path', {get, set}) creates a non-configurable
\* own property when the request had none of its own (Express: the getter
\* lives on the prototype) and keeps a plain object's property configurable
DefinePath(rq, newPath) ==
  [rq EXCEPT !.path = newPath, !.pathLocked = ~rq.plain]

\* strategy.resolveTenantId(req)
ResolveTenantId ==
  /\ Len(calls) < MaxCalls
  /\ LET path == req.path
         segments == Segments(path)
         index == options.position - 1
         id == IF path = <<>> THEN NullId ELSE TenantIdAt(segments, index)
         rebase == ShouldRebase(id, options.rebasePath)
         throws == rebase /\ req.pathLocked
         newPath == NewPath(segments, index)
         after == IF rebase /\ ~throws
                  THEN [DefinePath(req, newPath) EXCEPT !.originalUrl =
                          NewOriginalUrl(req.originalUrl, path, newPath)]
                  ELSE req
     IN  /\ req' = after
         /\ calls' = Append(calls, [before |-> req,
                                    returned |-> IF throws THEN RejectedId ELSE id,
                                    after |-> after])
  /\ UNCHANGED <<options, received, mwVars, libVars>>

\* ------------------------------------------- header, host, route strategies
\* the values of JavaScript that `x || null` turns into null
Falsy == {Unset, Null, EmptyStr}

\* x || null
OrNull(x) == IF x \in Falsy THEN Null ELSE x

\* obj[key]: undefined when the object has no such property
Prop(obj, key) == IF key \in DOMAIN obj THEN obj[key] ELSE Unset

\* a constructor argument that is left out or given
NotGiven == [given |-> FALSE]
Given(v) == [given |-> TRUE, value |-> v]

\* the characters of a header name, lower-cased
LowerChar(c) == CASE c = "X" -> "x" [] c = "T" -> "t" [] OTHER -> c

\* the configured name is looked up as it was given
ToLowerCase_asGiven(name) == name

\* this.headerName.toLowerCase()
ToLowerCase(name) == [k \in 1..Len(name) |-> LowerChar(name[k])]

\* 'x-tenant-id', written with one letter per word
DefaultHeaderName == <<"x", "-", "t">>

\* constructor(private headerName: string = 'x-tenant-id')
HeaderName(arg) == IF arg.given THEN arg.value ELSE DefaultHeaderName

\* HeaderStrategy.resolveTenantId
HeaderResolve(headerName, headers) ==
  OrNull(Prop(headers, ToLowerCase(headerName)))

\* header names a strategy can be configured with, and the names a request's
\* headers object can carry
HeaderNames == {<<"x", "-", "t">>, <<"X", "-", "T">>, <<"X", "-", "t">>, <<"t">>}
HeaderKeys == {<<"x", "-", "t">>, <<"X", "-", "T">>, <<"t">>}
HeaderValues == {Unset, EmptyStr, "tenant1", "tenant2"}

HeaderResolveTenantId ==
  /\ resolved.strategy = "none"
  /\ \E arg \in {NotGiven} \cup {Given(n) : n \in HeaderNames},
        headers \in [HeaderKeys -> HeaderValues] :
       resolved' = [strategy |-> "header", config |-> arg, input |-> headers,
                    returned |-> HeaderResolve(HeaderName(arg), headers)]
  /\ UNCHANGED <<mwVars, bpVars, storeVars>>

\* what hostname.match(this.pattern) yields: null, or the array of the whole
\* match followed by one entry per capture group of the pattern (undefined
\* for a group that took no part in the match)
NoMatch == [matched |-> FALSE]
Match(groups) == [matched |-> TRUE, groups |-> groups]
GroupValues == {Unset, EmptyStr, "tenant1"}
MatchResults ==
  {NoMatch, Match(<<>>)} \cup {Match(<<g>>) : g \in GroupValues}
    \cup {Match(<<g, h>>) : g \in GroupValues, h \in GroupValues}

\* match[1]
FirstGroup(match) == IF Len(match.groups) >= 1 THEN match.groups[1] ELSE Unset

\* HostStrategy.resolveTenantId
HostResolve(hostname, match) ==
  IF hostname \in Falsy THEN Null
  ELSE IF match.matched /\ FirstGroup(match) \notin Falsy
       THEN FirstGroup(match)
       ELSE Null

Hostnames == {Unset, EmptyStr, "example.com", "tenant1.example.com"}

HostResolveTenantId ==
  /\ resolved.strategy = "none"
  /\ \E hostname \in Hostnames, match \in MatchResults :
       resolved' = [strategy |-> "host", config |-> match, input |-> hostname,
                    returned |-> HostResolve(hostname, match)]
  /\ UNCHANGED <<mwVars, bpVars, storeVars>>

\* req.params: absent, or an object of route parameters
NoParams == [present |-> FALSE]
Params(obj) == [present |-> TRUE, obj |-> obj]

\* constructor(private paramName: string = 'tenantId')
ParamName(arg) == IF arg.given THEN arg.value ELSE "tenantId"

\* the params object is read without the optional chaining
RouteResolve_noOptionalChaining(paramName, params) ==
  IF params.present THEN OrNull(Prop(params.obj, paramName)) ELSE Thrown

\* RouteStrategy.resolveTenantId: req.params?.[this.paramName] || null
RouteResolve(paramName, params) ==
  IF params.present THEN OrNull(Prop(params.obj, paramName)) ELSE Null

ParamNames == {"tenantId", "org"}
ParamValues == {Unset, EmptyStr, "tenant1", "tenant2"}

RouteResolveTenantId ==
  /\ resolved.strategy = "none"
  /\ \E arg \in {NotGiven} \cup {Given(n) : n \in ParamNames},
        params \in {NoParams} \cup {Params(o) : o \in [ParamNames -> ParamValues]} :
       resolved' = [strategy |-> "route", config |-> arg, input |-> params,
                    returned |-> RouteResolve(ParamName(arg), params)]
  /\ UNCHANGED <<mwVars, bpVars, storeVars>>

\* ------------------------------------------------------------ ClaimStrategy
\* the values a payload is made of: what JSON.parse yields, undefined for a
\* property that is not there, and the functions found on Object.prototype
JNull == [kind |-> "null"]
JUndefined == [kind |-> "undefined"]
JString(str) == [kind |-> "string", value |-> str]
JNumber(n) == [kind |-> "number", value |-> n]
JArray == [kind |-> "array"]
JFunction(name) == [kind |-> "function", name |-> name]
JObject(props) == [kind |-> "object", props |-> props]
\* an extractor that throws
JThrown == [kind |-> "thrown"]

\* properties every object inherits
ObjectPrototypeKeys == {"toString", "constructor"}

\* !value
JFalsy(v) ==
  \/ v.kind \in {"null", "undefined"}
  \/ v.kind = "string" /\ v.value = EmptyStr
  \/ v.kind = "number" /\ v.value = 0

\* current == null || typeof current !== 'object'
NotAnObject(v) == v.kind \notin {"object", "array"}

\* current[part]: an own property, else an inherited one, else undefined
GetProperty(v, part) ==
  IF v.kind = "object" /\ part \in DOMAIN v.props THEN v.props[part]
  ELSE IF part \in ObjectPrototypeKeys THEN JFunction(part)
  ELSE JUndefined

\* s.split(sep) on a sequence of symbols
RECURSIVE SplitOn(_, _)
SplitOn(s, sep) ==
  IF \A k \in 1..Len(s) : s[k] # sep
  THEN <<s>>
  ELSE LET k == CHOOSE k \in 1..Len(s) :
                  s[k] = sep /\ \A j \in 1..(k - 1) : s[j] # sep
       IN  <<SubSeq(s, 1, k - 1)>> \o SplitOn(SubSeq(s, k + 1, Len(s)), sep)

\* a claim path is written as property names separated by "." symbols; the
\* name between two separators, the empty string when nothing is between
PartName(segment) == IF segment = <<>> THEN EmptyStr ELSE segment[1]

\* path.split('.')
Parts(path) ==
  LET segments == SplitOn(path, ".")
  IN  [k \in 1..Len(segments) |-> PartName(segments[k])]

\* current?.toString() || null
ToStringOrNull(v) ==
  CASE v.kind \in {"null", "undefined"} -> Null
    [] v.kind = "string" -> OrNull(v.value)
    [] v.kind = "number" -> "0"
    [] v.kind = "array" -> Null
    [] v.kind = "function" -> "function " \o v.name \o "() { [native code] }"
    [] v.kind = "object" ->
         IF "toString" \in DOMAIN v.props THEN Thrown ELSE "[object Object]"

\* the loop of getNestedProperty over the remaining parts
RECURSIVE Walk(_, _)
Walk(current, parts) ==
  IF parts = <<>> THEN ToStringOrNull(current)
  ELSE IF NotAnObject(current) THEN Null
  ELSE Walk(GetProperty(current, Head(parts)), Tail(parts))

\* ClaimStrategy.getNestedProperty(obj, path)
GetNestedProperty(obj, path) ==
  IF JFalsy(obj) \/ path = <<>> THEN Null ELSE Walk(obj, Parts(path))

\* Buffer.from(base64Payload, 'base64').toString('utf8')
Base64Decode(part) ==
  CASE part = <<"e30">> -> "{}"
    [] part = <<"eyJ0ZW5hbnQiOiJ0ZW5hbnQxIn0">> -> "{\"tenant\":\"tenant1\"}"
    [] part = <<"bnVsbA">> -> "null"
    [] part = <<"MA">> -> "0"
    [] part = <<>> -> EmptyStr
    [] OTHER -> "<bytes>"

\* JSON.parse(text): the value, or a SyntaxError
JsonParse(text) ==
  CASE text = "{}" -> JObject(<<>>)
    [] text = "{\"tenant\":\"tenant1\"}" -> JObject([k \in {"tenant"} |-> JString("tenant1")])
    [] text = "null" -> JNull
    [] text = "0" -> JNumber(0)
    [] OTHER -> JThrown

\* the Authorization header: absent, or its text as a sequence of symbols
NoHeader == [present |-> FALSE]
Header(text) == [present |-> TRUE, text |-> text]

\* the element at a 0-based index of an array, undefined beyond its end
ElementAt(array, index) ==
  IF index < Len(array) THEN Given(array[index + 1]) ELSE NotGiven

\* the body of the try block: token.split('.')[1], decoded and parsed
ParseToken(token) ==
  LET base64Payload == ElementAt(SplitOn(token, "."), 1)
  IN  IF base64Payload.given THEN JsonParse(Base64Decode(base64Payload.value))
      ELSE JThrown

\* the token is parsed outside a try block
DefaultAuthExtractor_noCatch(authHeader) ==
  IF ~authHeader.present \/ authHeader.text = <<>> THEN JNull
  ELSE IF ~(Len(authHeader.text) >= 2 /\ SubSeq(authHeader.text, 1, 2) = <<"Bearer", " ">>)
  THEN JNull
  ELSE LET token == ElementAt(SplitOn(authHeader.text, " "), 1)
       IN  IF ~token.given \/ token.value = <<>> THEN JNull
           ELSE ParseToken(token.value)

\* ClaimStrategy.defaultAuthExtractor
DefaultAuthExtractor(authHeader) ==
  IF ~authHeader.present \/ authHeader.text = <<>> THEN JNull
  ELSE IF ~(Len(authHeader.text) >= 2 /\ SubSeq(authHeader.text, 1, 2) = <<"Bearer", " ">>)
  THEN JNull
  ELSE LET token == ElementAt(SplitOn(authHeader.text, " "), 1)
       IN  IF ~token.given \/ token.value = <<>> THEN JNull
           ELSE IF ParseToken(token.value) = JThrown THEN JNull
           ELSE ParseToken(token.value)

\* ClaimStrategy.resolveTenantId once the extractor has returned or thrown
ClaimResolve(claimPath, payload) ==
  IF payload = JThrown THEN Thrown
  ELSE IF JFalsy(payload) THEN Null
  ELSE GetNestedProperty(payload, claimPath)

\* the payloads: objects of up to two levels over a few property names
Leaves == {JNull, JString(EmptyStr), JString("tenant1"), JNumber(0), JArray}
PartialFunctions(keys, values) == UNION {[D -> values] : D \in SUBSET keys}
InnerObjects == {JObject(f) : f \in PartialFunctions({"tenant", "toString"}, Leaves)}
Payloads ==
  {JObject(f) : f \in PartialFunctions({"tenant", "app"}, Leaves \cup InnerObjects)}

ClaimPaths ==
  { <<>>, <<"tenant">>, <<"app", ".", "tenant">>, <<"app", ".", "toString">>,
    <<"tenant", ".">>, <<"constructor">>, <<"org">> }

AuthHeaders ==
  { NoHeader, Header(<<>>),
    Header(<<"Basic", " ", "dXNlcjpwYXNz">>),
    Header(<<"Bearer">>),
    Header(<<"Bearer", " ">>),
    Header(<<"Bearer", " ", " ", "e30", ".", "e30", ".", "sig">>),
    Header(<<"Bearer", " ", "e30">>),
    Header(<<"Bearer", " ", "e30", ".">>),
    Header(<<"Bearer", " ", "e30", ".", ".", "sig">>),
    Header(<<"Bearer", " ", "invalid", ".", "token", ".", "format">>),
    Header(<<"Bearer", " ", "e30", ".", "%%%", ".", "sig">>),
    Header(<<"Bearer", " ", "e30", ".", "bnVsbA", ".", "sig">>),
    Header(<<"Bearer", " ", "e30", ".", "MA", ".", "sig">>),
    Header(<<"Bearer", " ", "e30", ".", "e30", ".", "sig">>),
    Header(<<"Bearer", " ", "e30", ".", "eyJ0ZW5hbnQiOiJ0ZW5hbnQxIn0", ".", "sig">>) }

\* resolveTenantId of a ClaimStrategy with the default extractor or with a
\* custom one that returns a payload, returns null or throws
ClaimResolveTenantId ==
  /\ resolved.strategy = "none"
  /\ \E claimPath \in ClaimPaths :
       \/ \E authHeader \in AuthHeaders :
            LET payload == DefaultAuthExtractor(authHeader)
            IN  resolved' = [strategy |-> "claim",
                             config |-> [claimPath |-> claimPath, extractor |-> "default"],
                             input |-> authHeader, payload |-> payload,
                             returned |-> ClaimResolve(claimPath, payload)]
       \/ \E payload \in Payloads \cup {JNull, JThrown} :
            resolved' = [strategy |-> "claim",
                         config |-> [claimPath |-> claimPath, extractor |-> "custom"],
                         input |-> payload, payload |-> payload,
                         returned |-> ClaimResolve(claimPath, payload)]
  /\ UNCHANGED <<mwVars, bpVars, storeVars>>

\* ------------------------------------------------------------ InMemoryStore
\* a Map is its entries in insertion order
Entry(key, value) == [key |-> key, value |-> value]

\* an entry is added even when the key is there already
MapSet_appends(map, key, value) == Append(map, Entry(key, value))

\* map.set(key, value): the value of an existing key is replaced in place, a
\* new key is added at the end
MapSet(map, key, value) ==
  IF \E i \in 1..Len(map) : map[i].key = key
  THEN [i \in 1..Len(map) |->
          IF map[i].key = key THEN Entry(key, value) ELSE map[i]]
  ELSE Append(map, Entry(key, value))

\* map.values()
MapValues(map) == [i \in 1..Len(map) |-> map[i].value]

\* every tenant of the array becomes an entry of its own
RECURSIVE Construct_appendsAll(_)
Construct_appendsAll(array) ==
  IF array = <<>> THEN <<>>
  ELSE Append(Construct_appendsAll(SubSeq(array, 1, Len(array) - 1)),
              Entry(array[Len(array)].id, array[Len(array)]))

\* constructor(tenants): this.tenants.set(tenant.id, tenant) for each tenant
\* of the array, in order
RECURSIVE Construct(_)
Construct(array) ==
  IF array = <<>> THEN <<>>
  ELSE MapSet(Construct(SubSeq(array, 1, Len(array) - 1)),
              array[Len(array)].id, array[Len(array)])

\* the first tenant of the store is returned whatever the id
GetById_first(map, id) == IF map = <<>> THEN NullTenant ELSE map[1].value

\* getById(id): this.tenants.get(id) || null
GetById(map, id) ==
  IF \E i \in 1..Len(map) : map[i].key = id
  THEN map[CHOOSE i \in 1..Len(map) : map[i].key = id].value
  ELSE NullTenant

\* getByName(name): the first tenant of that name in iteration order
GetByName(map, name) ==
  LET hits == {i \in 1..Len(map) : map[i].value.name = name}
  IN  IF hits = {} THEN NullTenant
      ELSE map[CHOOSE i \in hits : \A j \in hits : i <= j].value

\* getAll(): Array.from(this.tenants.values())
GetAll(map) == MapValues(map)

\* tenants a store is constructed with or given, and what is looked up
StoreTenants ==
  {[kind |-> "tenant", id |-> i, name |-> n] :
     i \in TenantIds, n \in {"Tenant 1", "Tenant 2"}}
LookupIds == TenantIds \cup {"tenant3"}
LookupNames == {"Tenant 1", "Tenant 2", "Tenant 3"}

\* an operation of the store, as called: what it returned and the map before
\* and after
Op(name, arg, returned, after) ==
  [op |-> name, arg |-> arg, returned |-> returned,
   before |-> tenants, after |-> after]

\* store.add(t)
Add(t) ==
  /\ Len(ops) < MaxOps
  /\ tenants' = MapSet(tenants, t.id, t)
  /\ puts' = Append(puts, t)
  /\ ops' = Append(ops, Op("add", t, t, tenants'))
  /\ UNCHANGED <<mwVars, bpVars, stVars>>

\* store.getById(id)
GetByIdCall(id) ==
  /\ Len(ops) < MaxOps
  /\ ops' = Append(ops, Op("getById", [id |-> id], GetById(tenants, id), tenants))
  /\ UNCHANGED <<tenants, puts, mwVars, bpVars, stVars>>

\* store.getByName(name)
GetByNameCall(name) ==
  /\ Len(ops) < MaxOps
  /\ ops' = Append(ops, Op("getByName", [name |-> name],
                           GetByName(tenants, name), tenants))
  /\ UNCHANGED <<tenants, puts, mwVars, bpVars, stVars>>

\* store.getAll()
GetAllCall ==
  /\ Len(ops) < MaxOps
  /\ ops' = Append(ops, Op("getAll", [none |-> TRUE],
                           [kind |-> "array", items |-> GetAll(tenants)], tenants))
  /\ UNCHANGED <<tenants, puts, mwVars, bpVars, stVars>>

\* ----------------------------------------------------------- specification
InitRequests ==
  /\ pc = [r \in AllRequests |-> "start"]
  /\ idx = [r \in AllRequests |-> 0]
  /\ tenantId = [r \in AllRequests |-> Null]
  /\ tenant = [r \in AllRequests |-> UnsetTenant]
  /\ invoked = [r \in AllRequests |-> <<>>]
  /\ results = [r \in AllRequests |-> <<>>]
  /\ getByIdCalls = [r \in AllRequests |-> <<>>]
  /\ lookups = [r \in AllRequests |-> <<>>]
  /\ handlerCalls = [r \in AllRequests |-> <<>>]
  /\ nextCalls = [r \in AllRequests |-> <<>>]
  /\ seeds = [r \in AllRequests |-> <<>>]
  /\ result = [r \in AllRequests |-> "pending"]
  /\ tasks = [r \in AllRequests |-> <<>>]
  /\ reads = [r \in AllRequests |-> <<>>]
  /\ outerStores = [r \in AllRequests |-> CallerStores]
  /\ outerReads = [r \in AllRequests |-> <<>>]
  /\ reqProps = [r \in AllRequests |-> ReceivedRequest]
  /\ logs = [r \in AllRequests |-> <<>>]

\* no header, host, route or claim strategy has been called
InitNoStrategyCall == resolved = [strategy |-> "none"]

\* no InMemoryStore is under observation: an empty one, nothing called
InitNoStore ==
  /\ tenants = <<>>
  /\ puts = <<>>
  /\ ops = <<>>

\* no BasePathStrategy call is under way: an instance with the constructor's
\* defaults and a request for '/'
InitNoBasePath ==
  /\ options = [position |-> 1, rebasePath |-> FALSE]
  /\ received = [mount |-> <<>>, path |-> <<"/">>, query |-> <<>>]
  /\ req = [path |-> <<"/">>, originalUrl |-> <<"/">>, plain |-> FALSE,
            pathLocked |-> FALSE]
  /\ calls = <<>>

InitConfig ==
  /\ \E n \in 0..MaxStrategies : strategies = [k \in 1..n |-> k]
  /\ onTenantNotFound \in BOOLEAN
  /\ binding \in Bindings

\* strategies that only read the request, a middleware with debug off
InitPlain ==
  /\ kinds = [k \in 1..Len(strategies) |-> "plain"]
  /\ debug = [r \in AllRequests |-> FALSE]

\* one request through the middleware
Init ==
  /\ InitConfig
  /\ kinds \in [1..Len(strategies) -> StrategyKinds]
  /\ \E d \in BOOLEAN : debug = [r \in AllRequests |-> d]
  /\ requests = {1}
  /\ InitRequests
  /\ InitNoBasePath
  /\ InitNoStrategyCall
  /\ InitNoStore

Next ==
  \/ \E r \in AllRequests : MiddlewareCall(r)
  \/ \E r \in AllRequests : StrategySettles(r)
  \/ \E r \in AllRequests : StoreSettles(r)
  \/ \E r \in AllRequests : DescendantTask(r)
  \/ \E r \in AllRequests : CallerRead(r)

Spec == Init /\ [][Next]_vars

\* every request in flight through the same middleware instance
InitConcurrent ==
  /\ InitConfig
  /\ InitPlain
  /\ requests = AllRequests
  /\ InitRequests
  /\ InitNoBasePath
  /\ InitNoStrategyCall
  /\ InitNoStore

SpecConcurrent == InitConcurrent /\ [][Next]_vars

\* the environment of request r behaves as it did for request q: a strategy
\* settles as it did, the store answers the same lookup the same way, the
\* handler and the continuation do at their k-th call what they did
Replays(r, q) ==
  /\ \A m \in 1..Len(results[r]) : \A k \in 1..Len(results[q]) :
       invoked[q][k] = invoked[r][m] => results[r][m] = results[q][k]
  /\ pc[r] = "awaitStrategy" =>
       \A k \in 1..Len(results[q]) :
         invoked[q][k] = idx[r] => results[q][k] # Thrown
  /\ \A m \in 1..Len(lookups[r]) :
       (m <= Len(lookups[q]) /\ getByIdCalls[q][m] = getByIdCalls[r][m]) =>
         lookups[r][m] = lookups[q][m]
  /\ \A m \in 1..Len(handlerCalls[r]) :
       m <= Len(handlerCalls[q]) => handlerCalls[r][m].does = handlerCalls[q][m].does
  /\ \A m \in 1..Len(nextCalls[r]) :
       m <= Len(nextCalls[q]) => nextCalls[r][m].does = nextCalls[q][m].does

\* the same request through two middlewares that differ in the debug option
\* only: request 1 through the one with debug: true, then request 2 through
\* the one with debug: false, with the same strategies, store, handler and
\* continuation
InitDebug ==
  /\ InitConfig
  /\ kinds \in [1..Len(strategies) -> StrategyKinds]
  /\ debug = [r \in AllRequests |-> r = 1]
  /\ requests = {1, 2}
  /\ InitRequests
  /\ InitNoBasePath
  /\ InitNoStrategyCall
  /\ InitNoStore

\* request 2 is handled once request 1 has been
InTurn(r) == r = 1 \/ (r = 2 /\ pc[1] = "done")

NextDebug ==
  \/ \E r \in {1, 2} : InTurn(r) /\ MiddlewareCall(r) /\ Replays(2, 1)'
  \/ \E r \in {1, 2} : InTurn(r) /\ StrategySettles(r) /\ Replays(2, 1)'
  \/ \E r \in {1, 2} : InTurn(r) /\ StoreSettles(r) /\ Replays(2, 1)'

SpecDebug == InitDebug /\ [][NextDebug]_vars

\* every pass goes on while there is something to go on with
SpecFair == Spec /\ WF_vars(Next)

\* the request paths: empty, or '/' followed by path characters
Paths ==
  {<<>>} \cup {s \in UNION {[1..n -> PathChars] : n \in 1..MaxPathLen} : s[1] = "/"}
\* where the middleware is mounted: req.originalUrl = mount + req.url
MountPaths == {<<>>, <<"/", "t">>, <<"/", "a">>}
\* the query string of the URL
Queries == {<<>>, <<"?", "/", "t">>}
\* the position option: 1-based, any number can be configured
Positions == (-1)..MaxPosition

\* a BasePathStrategy instance called on a request, on its own
InitBasePath ==
  /\ strategies = <<>>
  /\ InitPlain
  /\ onTenantNotFound = FALSE
  /\ binding = "stale"
  /\ requests = {}
  /\ InitRequests
  /\ \E position \in Positions, rebasePath \in BOOLEAN :
       options = [position |-> position, rebasePath |-> rebasePath]
  /\ \E mount \in MountPaths, path \in Paths, query \in Queries, plain \in BOOLEAN :
       /\ received = [mount |-> mount, path |-> path, query |-> query]
       /\ req = [path |-> path, originalUrl |-> mount \o path \o query,
                 plain |-> plain, pathLocked |-> FALSE]
  /\ calls = <<>>

  /\ InitNoStrategyCall
  /\ InitNoStore

NextBasePath == ResolveTenantId

SpecBasePath == InitBasePath /\ [][NextBasePath]_vars

\* the middleware with no request in flight
InitNoMiddleware ==
  /\ strategies = <<>>
  /\ InitPlain
  /\ onTenantNotFound = FALSE
  /\ binding = "stale"
  /\ requests = {}
  /\ InitRequests

\* one call of a header, host, route or claim strategy, on its own
InitStrategies ==
  /\ InitNoMiddleware
  /\ InitNoBasePath
  /\ InitNoStore
  /\ InitNoStrategyCall

NextStrategies ==
  \/ HeaderResolveTenantId
  \/ HostResolveTenantId
  \/ RouteResolveTenantId
  \/ ClaimResolveTenantId

SpecStrategies == InitStrategies /\ [][NextStrategies]_vars

\* the arrays a store is constructed with
InitialArrays == UNION {[1..n -> StoreTenants] : n \in 0..MaxInitial}

\* an InMemoryStore after construction, on its own
InitStore ==
  /\ InitNoMiddleware
  /\ InitNoBasePath
  /\ InitNoStrategyCall
  /\ \E array \in InitialArrays :
       /\ tenants = Construct(array)
       /\ puts = array
  /\ ops = <<>>

NextStore ==
  \/ \E t \in StoreTenants : Add(t)
  \/ \E id \in LookupIds : GetByIdCall(id)
  \/ \E name \in LookupNames : GetByNameCall(name)
  \/ GetAllCall

SpecStore == InitStore /\ [][NextStore]_vars

\* ------------------------------------------------------------------ claims
\* a request's state before the middleware has written anything
F0 ==
  [ tenant |-> UnsetTenant, nextCalls |-> <<>>, handlerCalls |-> <<>>,
    seeds |-> <<>>, tasks |-> <<>>, result |-> "pending",
    outer |-> CallerStores, props |-> ReceivedRequest, logs |-> <<>>,
    debug |-> FALSE ]

Range(q) == {q[k] : k \in 1..Len(q)}

\* what a continuation reads from the exported accessor, tenantContext.getStore()
ContextRead(call) == GetStore(PublicChannel, call.stores)

\* the calls of next() the middleware itself made for request r
MiddlewareNextCalls(r) == {c \in Range(nextCalls[r]) : c.by = "middleware"}

\* C1: the adopted identifier is the first non-null, non-empty strategy result
\* in array order, strategies are invoked in array order, and no strategy
\* after the matching one is invoked, also after a store miss
C1_FirstMatchWins ==
  \A r \in requests :
    /\ \A k \in 1..Len(invoked[r]) : invoked[r][k] = k
    /\ LET M == {k \in 1..Len(results[r]) : results[r][k] \in TenantIds}
       IN IF M = {}
          THEN tenantId[r] = Null /\ getByIdCalls[r] = <<>>
          ELSE \E m \in M : /\ \A k \in M : m <= k
                            /\ tenantId[r] = results[r][m]
                            /\ Len(invoked[r]) = m
                            /\ getByIdCalls[r] = <<results[r][m]>>

C1_Witness ==
  /\ Len(strategies) = 2
  /\ ~onTenantNotFound
  /\ pc[1] = "done"
  /\ results[1] = <<"tenant1">>
  /\ invoked[1] = <<1>>
  /\ lookups[1] = <<NullTenant>>

\* C2: when getById resolved to a tenant record, every run of the
\* continuation sees the request's tenant field equal to that record and
\* reads the adopted identifier from the context channel
C2_TenantAndContextAtNext ==
  \A r \in requests :
    (lookups[r] # <<>> /\ TenantFound(lookups[r][1])) =>
      \A c \in Range(nextCalls[r]) :
        c.tenant = lookups[r][1] /\ ContextRead(c) = tenantId[r]

\* C3: identifier found, getById resolved to null, no handler: the tenant
\* field is null, the continuation is invoked and reads null from the
\* context channel
C3_NotFoundNoHandler ==
  \A r \in requests :
    (pc[r] = "done" /\ lookups[r] = <<NullTenant>> /\ ~onTenantNotFound) =>
      /\ tenant[r] = NullTenant
      /\ nextCalls[r] # <<>>
      /\ \A c \in Range(nextCalls[r]) : ContextRead(c) = Null

\* C4: identifier found, getById resolved to null, handler configured: the
\* handler is invoked exactly once with (req, res, next, identifier) and the
\* middleware itself never invokes the continuation
C4_HandlerOwnsContinuation ==
  \A r \in requests :
    (pc[r] = "done" /\ lookups[r] = <<NullTenant>> /\ onTenantNotFound) =>
      /\ Len(handlerCalls[r]) = 1
      /\ handlerCalls[r][1].req = r
      /\ handlerCalls[r][1].res = r
      /\ handlerCalls[r][1].next = r
      /\ handlerCalls[r][1].tenantId = tenantId[r]
      /\ MiddlewareNextCalls(r) = {}

\* C5: strategies configured and none yields an identifier: the tenant field
\* is null, the store is not called, and the continuation is invoked and
\* reads null from the context channel
C5_NoMatch ==
  \A r \in requests :
    (pc[r] = "done" /\ Len(strategies) >= 1 /\ tenantId[r] = Null) =>
      /\ tenant[r] = NullTenant
      /\ getByIdCalls[r] = <<>>
      /\ nextCalls[r] # <<>>
      /\ \A c \in Range(nextCalls[r]) : ContextRead(c) = Null

Failures == {Rejected, Thrown}

\* C7: a strategy that throws or rejects does not stop the chain (the next
\* strategy is invoked), its failure never becomes the outcome of the
\* middleware call, and a failing last strategy is handled as "no strategy
\* matched"
C7_StrategyFailureIsolated ==
  \A r \in requests :
    /\ result[r] # "StrategyError"
    /\ \A k \in 1..Len(results[r]) :
         (results[r][k] \in Failures /\ k < Len(strategies)) =>
           (Len(invoked[r]) > k /\ invoked[r][k + 1] = k + 1)
    /\ ( /\ pc[r] = "done"
         /\ results[r] # <<>>
         /\ Len(results[r]) = Len(strategies)
         /\ results[r][Len(results[r])] \in Failures )
       => \E nb \in NextBehaviours :
            LET f == NoTenantId(F0, nb)
            IN /\ tenant[r] = f.tenant
               /\ nextCalls[r] = f.nextCalls
               /\ seeds[r] = f.seeds
               /\ result[r] = f.result
               /\ handlerCalls[r] = <<>>
               /\ getByIdCalls[r] = <<>>

C7_Witness ==
  /\ Len(strategies) = 2
  /\ binding = "stale"
  /\ pc[1] = "done"
  /\ results[1] = <<Rejected, Rejected>>
  /\ invoked[1] = <<1, 2>>
  /\ result[1] = "fulfilled"
  /\ Len(nextCalls[1]) = 1

\* C8: a rejected getById does not reach the caller: the tenant field is
\* null, the continuation is invoked and reads null from the context channel
C8_StoreRejectionHandled ==
  \A r \in requests :
    (pc[r] = "done" /\ lookups[r] = <<RejectedLookup>>) =>
      /\ result[r] \notin {"StoreError", "TypeError"}
      /\ tenant[r] = NullTenant
      /\ nextCalls[r] # <<>>
      /\ \A c \in Range(nextCalls[r]) : ContextRead(c) = Null

\* the observable outcome of a pass: handler invocations, tenant field,
\* seeded context values, whether the continuation was invoked
Observable(f) ==
  [ handler |-> Len(f.handlerCalls), tenant |-> f.tenant,
    context |-> Range(f.seeds), continued |-> f.nextCalls # <<>> ]

\* C9 as stated: in every configuration the observable outcome of a rejected
\* lookup is an outcome of a lookup that resolves to null
C9_RejectedSameAsNotFound ==
  \A r \in requests :
    (pc[r] = "done" /\ lookups[r] = <<RejectedLookup>>) =>
      \E hb \in HandlerBehaviours, nb1, nb2 \in NextBehaviours :
        Observable(Frame(r)) =
          Observable(StoreResolved(F0, r, tenantId[r], NullTenant, hb, nb1, nb2))

\* C9 amended: a rejected lookup never invokes the onTenantNotFound handler;
\* in every configuration its observable outcome is that of a not-found
\* lookup with no handler configured
C9_RejectedAsNotFoundWithoutHandler ==
  \A r \in requests :
    (pc[r] = "done" /\ lookups[r] = <<RejectedLookup>>) =>
      /\ handlerCalls[r] = <<>>
      /\ \E nb1, nb2 \in NextBehaviours :
           Observable(Frame(r)) = Observable(ContinueWithNull(F0, nb1, nb2))

C9_Witness ==
  /\ onTenantNotFound
  /\ binding = "stale"
  /\ pc[1] = "done"
  /\ lookups[1] = <<RejectedLookup>>
  /\ handlerCalls[1] = <<>>
  /\ tenant[1] = NullTenant
  /\ nextCalls[1] # <<>>

\* C10: with several requests in flight, every context-channel read in a
\* request's continuation chain (the continuation and the tasks it leaves
\* behind) returns a value the middleware seeded for that request
C10_ReadsOwnSeed ==
  \A r \in requests :
    /\ \A c \in MiddlewareNextCalls(r) : ContextRead(c) \in Range(seeds[r])
    /\ \A k \in 1..Len(reads[r]) :
         GetStore(PublicChannel, reads[r][k]) \in Range(seeds[r])

\* C11: every task descending from a continuation the middleware invoked,
\* the continuation itself included, observes through the exported accessor
\* the value the middleware seeded for it
C11_DescendantsObserveSeed ==
  \A r \in requests :
    /\ \A c \in MiddlewareNextCalls(r) :
         ContextRead(c) = GetStore(MiddlewareChannel, c.stores)
    /\ \A k \in 1..Len(reads[r]) :
         GetStore(MiddlewareChannel, reads[r][k]) # Unset =>
           GetStore(PublicChannel, reads[r][k]) = GetStore(MiddlewareChannel, reads[r][k])

\* C12: the middleware seeds at most one value per request: it never seeds
\* a second, different value
C12_SeededOnce ==
  \A r \in requests : Cardinality(Range(seeds[r])) <= 1

\* C13: in every terminal outcome the tenant field has been assigned, and
\* the onTenantNotFound handler is invoked with the tenant field null
C13_TenantAlwaysAssigned ==
  \A r \in requests :
    /\ pc[r] = "done" => tenant[r] # UnsetTenant
    /\ \A h \in Range(handlerCalls[r]) : h.tenant = NullTenant

C15_SingleLookup ==
  \A r \in requests :
    /\ Len(getByIdCalls[r]) <= 1
    /\ Len(lookups[r]) <= Len(getByIdCalls[r])
    /\ pc[r] \in {"start", "awaitStrategy"} => getByIdCalls[r] = <<>>
    /\ getByIdCalls[r] # <<>> =>
         /\ results[r] # <<>>
         /\ results[r][Len(results[r])] \in TenantIds
         /\ getByIdCalls[r][1] = results[r][Len(results[r])]
         /\ getByIdCalls[r][1] = tenantId[r]

C15_Witness ==
  /\ binding = "stale"
  /\ pc[1] = "done"
  /\ results[1] = <<EmptyStr, "tenant2">>
  /\ getByIdCalls[1] = <<"tenant2">>
  /\ lookups[1] = <<RejectedLookup>>
  /\ Len(nextCalls[1]) = 1

\* C16: per request each strategy is invoked at most once, a strategy is
\* invoked only when every strategy invoked before it has settled, and once
\* the loop is over (store lookup pending or the pass done) no strategy is
\* invoked again
C16_StrategiesOnceSequential ==
  /\ [](\A r \in requests :
          /\ \A j, k \in 1..Len(invoked[r]) : invoked[r][j] = invoked[r][k] => j = k
          /\ Len(invoked[r]) <= Len(strategies)
          /\ Len(invoked[r]) - Len(results[r]) \in {0, 1}
          /\ (Len(invoked[r]) = Len(results[r]) + 1) <=> (pc[r] = "awaitStrategy"))
  /\ [][\A r \in requests :
          /\ pc[r] \in {"awaitStore", "done"} => invoked'[r] = invoked[r]
          /\ Len(invoked'[r]) > Len(invoked[r]) => Len(results'[r]) >= Len(invoked[r])]_vars

C16_Witness ==
  /\ Len(strategies) = 2
  /\ pc[1] = "done"
  /\ results[1] = <<Rejected, "tenant1">>
  /\ invoked[1] = <<1, 2>>
  /\ lookups[1] = <<RejectedLookup>>

\* C17: once the middleware call for a request has completed, a read of
\* either channel by the code that called the middleware, outside the
\* continuation's call chain, returns the unset state
C17_SeedConfinedToChain ==
  \A r \in requests :
    \A k \in 1..Len(outerReads[r]) :
      \A ch \in Channels : GetStore(ch, outerReads[r][k]) = Unset

C17_Witness ==
  /\ binding = "stale"
  /\ pc[1] = "done"
  /\ seeds[1] = <<"tenant1">>
  /\ GetStore(MiddlewareChannel, nextCalls[1][1].stores) = "tenant1"
  /\ Len(outerReads[1]) = 1

\* the first call of resolveTenantId on the request as received
FirstCall == calls[1]

\* the non-empty segments of the path as received
ReceivedSegments == Segments(received.path)

\* a segment exists at the configured position of the path as received
SegmentPresent ==
  /\ options.position >= 1
  /\ Len(ReceivedSegments) >= options.position

\* the segments of the path as received without the one at the position
SegmentsWithoutTenant ==
  [k \in 1..(Len(ReceivedSegments) - 1) |->
     IF k < options.position THEN ReceivedSegments[k] ELSE ReceivedSegments[k + 1]]

\* C18: with rebasePath enabled and a segment at the configured position,
\* resolveTenantId returns that segment, and afterwards the path reads as the
\* received path without that one segment and originalUrl reads as the
\* received URL with the same removal: mount, then the new path, then the
\* query
C18_RebaseRemovesSegmentOnce ==
  (Len(calls) >= 1 /\ options.rebasePath /\ SegmentPresent) =>
    /\ FirstCall.returned = Id(ReceivedSegments[options.position])
    /\ Segments(FirstCall.after.path) = SegmentsWithoutTenant
    /\ FirstCall.after.originalUrl =
         received.mount \o FirstCall.after.path \o received.query

\* C19: a call of resolveTenantId leaves the request's path and originalUrl
\* as they were whenever rebasePath is false or the call finds no segment at
\* the configured position
C19_NoRewriteWithoutMatchAndOption ==
  \A k \in 1..Len(calls) :
    (~options.rebasePath \/ calls[k].returned.kind # "id") =>
      /\ calls[k].after.path = calls[k].before.path
      /\ calls[k].after.originalUrl = calls[k].before.originalUrl

C19_Witness ==
  /\ Len(calls) = 1
  /\ ~options.rebasePath
  /\ received.path = <<"/", "t", "/", "a">>
  /\ FirstCall.returned = Id(<<"t">>)
  /\ req.path = received.path

\* the URL as received
ReceivedUrl == received.mount \o received.path \o received.query

Rewrites ==
  {k \in 1..Len(calls) :
     \/ calls[k].after.path # calls[k].before.path
     \/ calls[k].after.originalUrl # calls[k].before.originalUrl}

\* C21: however often resolveTenantId is invoked on one request, at most one
\* invocation rewrites it and at most one segment is gone from its path: a
\* second invocation on the rebased request finds no match or rewrites
\* nothing
C21_RebaseAtMostOnce ==
  /\ Cardinality(Rewrites) <= 1
  /\ Len(Segments(req.path)) >= Len(ReceivedSegments) - 1

\* C22 (the BasePathStrategy half): a position that is zero, negative or
\* greater than the number of segments of the path makes every call return
\* null and leave the request as it was
C22_OutOfRangeYieldsNull ==
  \A k \in 1..Len(calls) :
    (options.position < 1
       \/ options.position > Len(Segments(calls[k].before.path))) =>
      /\ calls[k].returned = NullId
      /\ calls[k].after = calls[k].before

\* where the runs of non-slash characters of a path begin
RunStarts(s) == {i \in 1..Len(s) : s[i] # "/" /\ (i = 1 \/ s[i - 1] = "/")}

\* the p-th run of non-slash characters of a path
NthRun(s, p) ==
  LET i == CHOOSE i \in RunStarts(s) :
             Cardinality({j \in RunStarts(s) : j <= i}) = p
      e == CHOOSE e \in i..Len(s) :
             /\ \A j \in i..e : s[j] # "/"
             /\ e = Len(s) \/ s[e + 1] = "/"
  IN  SubSeq(s, i, e)

\* C23: with position p >= 1 every call of resolveTenantId returns the p-th
\* non-empty '/'-separated segment of the path the request has at the call,
\* and null when that path is empty or has fewer than p such segments
C23_ReturnsNthSegment ==
  \A k \in 1..Len(calls) :
    options.position >= 1 =>
      calls[k].returned =
        IF Cardinality(RunStarts(calls[k].before.path)) >= options.position
        THEN Id(NthRun(calls[k].before.path, options.position))
        ELSE NullId

\* the same relation for the calls that return (a call that rejects returns
\* nothing): this is what the segment extraction itself guarantees
ReturnsNthSegmentUnlessRejected ==
  \A k \in 1..Len(calls) :
    (options.position >= 1 /\ calls[k].returned # RejectedId) =>
      calls[k].returned =
        IF Cardinality(RunStarts(calls[k].before.path)) >= options.position
        THEN Id(NthRun(calls[k].before.path, options.position))
        ELSE NullId

\* a pattern without capture group that matches: the match array holds the
\* whole match only, and the strategy returns null (the HostStrategy half of
\* C22)
HostWithoutGroupYieldsNull ==
  (resolved.strategy = "host" /\ resolved.config = Match(<<>>)) =>
    resolved.returned = Null

\* two header names that differ at most in the case of their letters
SameIgnoringCase(a, b) ==
  /\ Len(a) = Len(b)
  /\ \A k \in 1..Len(a) :
       a[k] = b[k] \/ {a[k], b[k]} \in {{"x", "X"}, {"t", "T"}}

\* a header name without capital letters
IsLowerCase(name) == \A k \in 1..Len(name) : name[k] \notin {"X", "T"}

\* the name a HeaderStrategy was configured with
ConfiguredHeaderName ==
  IF resolved.config.given THEN resolved.config.value ELSE <<"x", "-", "t">>

\* C24: HeaderStrategy returns, as it is, the value of the header whose name
\* is the configured name in lower case, whatever the case of the letters of
\* the configured name (x-tenant-id when none is configured), and null when
\* the request has no such header or its value is the empty string
C24_HeaderVerbatim ==
  resolved.strategy = "header" =>
    LET keys == {k \in DOMAIN resolved.input :
                   IsLowerCase(k) /\ SameIgnoringCase(k, ConfiguredHeaderName)}
        values == {resolved.input[k] : k \in keys} \ {Unset, EmptyStr}
    IN  IF values = {} THEN resolved.returned = Null
        ELSE resolved.returned \in values

C24_Witness ==
  /\ resolved.strategy = "header"
  /\ resolved.config = Given(<<"X", "-", "T">>)
  /\ resolved.input[<<"x", "-", "t">>] = "tenant1"
  /\ resolved.input[<<"X", "-", "T">>] = "tenant2"
  /\ resolved.returned = "tenant1"

\* the name a RouteStrategy was configured with
ConfiguredParamName ==
  IF resolved.config.given THEN resolved.config.value ELSE "tenantId"

\* C25: RouteStrategy returns the route parameter of the configured name
\* (tenantId when none is configured) when it is there and not empty, null
\* when the request has no params object, the parameter is missing or is the
\* empty string, and it never throws
C25_RouteParam ==
  resolved.strategy = "route" =>
    LET value == IF resolved.input.present
                 THEN resolved.input.obj[ConfiguredParamName]
                 ELSE Unset
    IN  /\ resolved.returned # Thrown
        /\ resolved.returned = IF value \in {Unset, EmptyStr} THEN Null ELSE value

C25_Witness ==
  /\ resolved.strategy = "route"
  /\ resolved.config = NotGiven
  /\ resolved.input = NoParams
  /\ resolved.returned = Null

\* the value at the end of a path through the payload's own properties,
\* undefined when a step is missing or an intermediate value is no object
RECURSIVE OwnValueAt(_, _)
OwnValueAt(v, names) ==
  IF names = <<>> THEN v
  ELSE IF v.kind # "object" THEN JUndefined
  ELSE IF Head(names) \notin DOMAIN v.props THEN JUndefined
  ELSE OwnValueAt(v.props[Head(names)], Tail(names))

\* the string representation of a payload value
StringOf(v) ==
  CASE v.kind = "string" -> v.value
    [] v.kind = "number" -> "0"
    [] v.kind = "array" -> EmptyStr
    [] v.kind = "object" -> "[object Object]"
    [] OTHER -> EmptyStr

\* C26: for a payload object and a claim path, ClaimStrategy returns the
\* string representation of the value at the end of the path when there is
\* one and it is not null, and null, without throwing, when a step of the
\* path is missing, an intermediate value is null or no object, or the final
\* value is null, undefined or empty
C26_ClaimPathWalk ==
  (resolved.strategy = "claim" /\ resolved.payload.kind = "object"
     /\ resolved.config.claimPath # <<>>) =>
    LET final == OwnValueAt(resolved.payload, Parts(resolved.config.claimPath))
    IN  resolved.returned =
          IF final.kind \in {"null", "undefined"} \/ StringOf(final) = EmptyStr
          THEN Null
          ELSE StringOf(final)

\* the Authorization headers that are absent, not of the Bearer scheme,
\* without token, or whose token has a middle segment that is missing, not
\* decodable or not JSON
MalformedAuthHeaders ==
  { NoHeader, Header(<<>>),
    Header(<<"Basic", " ", "dXNlcjpwYXNz">>),
    Header(<<"Bearer">>),
    Header(<<"Bearer", " ">>),
    Header(<<"Bearer", " ", "e30">>),
    Header(<<"Bearer", " ", "e30", ".">>),
    Header(<<"Bearer", " ", "e30", ".", ".", "sig">>),
    Header(<<"Bearer", " ", "invalid", ".", "token", ".", "format">>),
    Header(<<"Bearer", " ", "e30", ".", "%%%", ".", "sig">>) }

\* C27: with the default extractor, ClaimStrategy returns null, and throws
\* nothing, for every request whose Authorization header is absent, is not a
\* Bearer header, has an empty token, or has a token whose middle segment is
\* missing, not decodable or not valid JSON
C27_MalformedTokenYieldsNull ==
  (resolved.strategy = "claim" /\ resolved.config.extractor = "default"
     /\ resolved.input \in MalformedAuthHeaders) =>
    resolved.returned = Null

C27_Witness ==
  /\ resolved.strategy = "claim"
  /\ resolved.config.extractor = "default"
  /\ resolved.config.claimPath = <<"tenant">>
  /\ resolved.input = Header(<<"Bearer", " ", "invalid", ".", "token", ".", "format">>)
  /\ resolved.returned = Null

\* the identifiers that have an entry in a map
StoredIds(map) == {map[i].value.id : i \in 1..Len(map)}

\* C28: add is an upsert by identifier: it returns the tenant it was given,
\* getById of that tenant's id afterwards returns that tenant, and getAll has
\* one tenant more exactly when the id was not stored before and as many as
\* before when it was
C28_AddIsUpsert ==
  \A k \in 1..Len(ops) :
    ops[k].op = "add" =>
      /\ ops[k].returned = ops[k].arg
      /\ GetById(ops[k].after, ops[k].arg.id) = ops[k].arg
      /\ Len(GetAll(ops[k].after)) =
           IF ops[k].arg.id \in StoredIds(ops[k].before)
           THEN Len(GetAll(ops[k].before))
           ELSE Len(GetAll(ops[k].before)) + 1

C28_Witness ==
  /\ Len(ops) = 2
  /\ ops[1].op = "add" /\ ops[1].arg.id \notin StoredIds(ops[1].before)
  /\ ops[2].op = "add" /\ ops[2].arg.id = ops[1].arg.id
  /\ ops[2].arg # ops[1].arg
  /\ Len(GetAll(tenants)) = Len(GetAll(ops[1].before)) + 1

\* the tenant most recently constructed with or added under an id
LastPut(id) ==
  LET at == {k \in 1..Len(puts) : puts[k].id = id}
  IN  IF at = {} THEN NullTenant
      ELSE puts[CHOOSE k \in at : \A j \in at : j <= k]

\* C29: after construction, also from an array with duplicate ids, and any
\* adds, no two tenants of getAll share an id, and getById returns the
\* tenant most recently constructed with or added under the id
C29_UniqueIdsLastWins ==
  /\ \A i, j \in 1..Len(GetAll(tenants)) :
       GetAll(tenants)[i].id = GetAll(tenants)[j].id => i = j
  /\ \A id \in LookupIds : GetById(tenants, id) = LastPut(id)

C29_Witness ==
  /\ Len(puts) = 3
  /\ Len(ops) = 1
  /\ puts[1].id = puts[2].id /\ puts[1] # puts[2]
  /\ puts[3].id = puts[1].id /\ puts[3] # puts[2]
  /\ Len(GetAll(tenants)) = 1

\* C30: getById returns the stored tenant of that id and null when there is
\* none, getByName returns a stored tenant of that name and null when there
\* is none, and neither changes the store
C30_LookupsReadOnly ==
  \A k \in 1..Len(ops) :
    LET stored == {ops[k].before[i].value : i \in 1..Len(ops[k].before)}
    IN  /\ ops[k].op = "getById" =>
             /\ ops[k].after = ops[k].before
             /\ LET hits == {t \in stored : t.id = ops[k].arg.id}
                IN  IF hits = {} THEN ops[k].returned = NullTenant
                    ELSE ops[k].returned \in hits
        /\ ops[k].op = "getByName" =>
             /\ ops[k].after = ops[k].before
             /\ LET hits == {t \in stored : t.name = ops[k].arg.name}
                IN  IF hits = {} THEN ops[k].returned = NullTenant
                    ELSE ops[k].returned \in hits

C30_Witness ==
  /\ Len(ops) = 2
  /\ Len(tenants) = 2
  /\ ops[1].op = "getById" /\ ops[1].arg.id = "tenant2"
  /\ ops[1].returned = tenants[2].value
  /\ ops[2].op = "getByName" /\ ops[2].arg.name = "Tenant 3"
  /\ ops[2].returned = NullTenant

\* the number of calls of next() the middleware itself made for request r
MiddlewareNextCount(r) ==
  Len(SelectSeq(nextCalls[r], LAMBDA c : c.by = "middleware"))

\* C31: the middleware invokes the continuation at most once per request on
\* every path, also when the continuation throws synchronously after a
\* tenant was resolved and when the onTenantNotFound handler throws
C31_NextAtMostOnce ==
  \A r \in requests : MiddlewareNextCount(r) <= 1

\* C32: a pass whose strategy and store calls have settled ended in exactly
\* one terminal action by the middleware: it invoked the continuation or it
\* invoked the onTenantNotFound handler, never neither and never both
C32_ExactlyOneTerminalAction ==
  \A r \in requests :
    pc[r] = "done" => MiddlewareNextCount(r) + Len(handlerCalls[r]) = 1

\* C33: once getById has resolved to a tenant record and the middleware has
\* attached it to the request, the tenant field is not overwritten with null
\* for that request, even if the continuation throws
C33_AttachedTenantKept ==
  \A r \in requests :
    (pc[r] = "done" /\ lookups[r] # <<>> /\ TenantFound(lookups[r][1])) =>
      tenant[r] = lookups[r][1]

\* C34: in the onTenantNotFound branch the middleware seeds nothing: the
\* handler, and the continuation if it is invoked, observe the context
\* channel as the middleware's caller had it (unset), not null and not the
\* unresolved identifier
C34_HandlerBranchUnseeded ==
  \A r \in requests :
    handlerCalls[r] # <<>> =>
      /\ seeds[r] = <<>>
      /\ \A h \in Range(handlerCalls[r]) :
           GetStore(MiddlewareChannel, h.stores) = Unset
      /\ \A c \in Range(nextCalls[r]) :
           GetStore(MiddlewareChannel, c.stores) = Unset

\* C37: the channel the middleware seeds is the channel the exported
\* accessor reads: the middleware's import of the channel is bound, and the
\* k-th value it seeds for a request is what tenantContext.getStore()
\* returns inside the k-th continuation it runs for that request
C37_SeededChannelIsPublic ==
  \A r \in requests :
    /\ result[r] # "TypeError"
    /\ LET mine == SelectSeq(nextCalls[r], LAMBDA c : c.by = "middleware")
       IN  \A k \in 1..Len(mine) :
             k <= Len(seeds[r]) /\ ContextRead(mine[k]) = seeds[r][k]

\* text sub occurs in text s starting at index k
OccursAt(sub, s, k) ==
  /\ k >= 1
  /\ k + Len(sub) - 1 <= Len(s)
  /\ SubSeq(s, k, k + Len(sub) - 1) = sub

\* the received path is a proper suffix of originalUrl and its text occurs
\* earlier in originalUrl, or its text occurs again in the query string
PathTextRepeated ==
  \/ /\ received.mount # <<>>
     /\ \E k \in 1..Len(received.mount) : OccursAt(received.path, ReceivedUrl, k)
  \/ \E k \in 1..Len(received.query) : OccursAt(received.path, received.query, k)

\* C36: when the path text is repeated in originalUrl (before the path under
\* a mount point, or in the query string), the rebased originalUrl differs
\* from the received one only by the removal of the tenant segment inside
\* the path portion: mount and query are kept as received
C36_RebaseRewritesPathPortionOnly ==
  ( /\ Len(calls) >= 1
    /\ options.rebasePath
    /\ SegmentPresent
    /\ PathTextRepeated ) =>
    /\ Segments(FirstCall.after.path) = SegmentsWithoutTenant
    /\ FirstCall.after.originalUrl =
         received.mount \o FirstCall.after.path \o received.query

\* the strategy whose result the middleware adopted for request r
Adopter(r) == idx[r]

\* request r has reached the store lookup with an identifier adopted from a
\* rebase-enabled BasePathStrategy
AdoptedFromRebase(r) ==
  /\ pc[r] \in {"awaitStore", "done"}
  /\ tenantId[r] # Null
  /\ kinds[Adopter(r)] = "rebase"

\* C35: the request's path is rewritten during a pass if and only if the
\* strategy that yielded the adopted identifier is a rebase-enabled
\* BasePathStrategy; the rewrite is never undone: the handler and every run
\* of the continuation see it, also after a store miss or rejection that
\* leaves the tenant field null
C35_RewriteIffRebaseAdopted ==
  \A r \in requests :
    /\ reqProps[r].path = "rebased" <=> AdoptedFromRebase(r)
    /\ \A c \in Range(nextCalls[r]) \cup Range(handlerCalls[r]) :
         c.props.path = "rebased" <=> AdoptedFromRebase(r)

C35_Witness ==
  /\ kinds = <<"plain", "rebase">>
  /\ binding = "stale"
  /\ pc[1] = "done"
  /\ results[1] = <<Null, "tenant1">>
  /\ lookups[1] = <<RejectedLookup>>
  /\ tenant[1] = NullTenant
  /\ reqProps[1].path = "rebased"
  /\ Len(nextCalls[1]) = 1
  /\ nextCalls[1][1].props.path = "rebased"

\* what a pass did that a caller or a continuation can tell: the calls of
\* next and of the handler without the request they were made for
Terminal(r) ==
  [ next |-> [k \in 1..Len(nextCalls[r]) |->
                [by |-> nextCalls[r][k].by, tenant |-> nextCalls[r][k].tenant,
                 stores |-> nextCalls[r][k].stores]],
    handler |-> [k \in 1..Len(handlerCalls[r]) |-> handlerCalls[r][k].tenantId],
    result |-> result[r] ]

\* C38: the debug option has no effect on resolution: the same request with
\* the same strategies, store, handler and continuation, passed through a
\* middleware with debug true and through one with debug false, has the same
\* strategies invoked in the same order and ends with the same tenant field,
\* the same seeded context values and the same terminal action
C38_DebugHasNoEffect ==
  (pc[1] = "done" /\ pc[2] = "done") =>
    /\ invoked[1] = invoked[2]
    /\ results[1] = results[2]
    /\ getByIdCalls[1] = getByIdCalls[2]
    /\ tenant[1] = tenant[2]
    /\ seeds[1] = seeds[2]
    /\ reqProps[1] = reqProps[2]
    /\ Terminal(1) = Terminal(2)

C38_Witness ==
  /\ pc[1] = "done" /\ pc[2] = "done"
  /\ binding = "stale"
  /\ logs[1] = <<"strategy error", "resolved", "set context", "store error">>
  /\ logs[2] = <<>>
  /\ invoked[2] = <<1, 2>>
  /\ Len(nextCalls[2]) = 2
  /\ tenant[2] = NullTenant

\* C39: a step of a middleware pass changes nothing on the request but the
\* tenant field and, when a rebase-enabled BasePathStrategy yielded the
\* adopted identifier, the path and originalUrl; it never changes the
\* strategies, their configuration or the contents of the store
C39_Frame ==
  [][ /\ strategies' = strategies
      /\ kinds' = kinds
      /\ options' = options
      /\ tenants' = tenants
      /\ \A r \in requests :
           /\ reqProps'[r].others = reqProps[r].others
           /\ reqProps'[r] # reqProps[r] =>
                /\ pc[r] = "awaitStrategy" /\ pc'[r] = "awaitStore"
                /\ kinds[idx[r]] = "rebase" ]_vars

C39_Witness ==
  /\ kinds = <<"rebase">>
  /\ binding = "stale"
  /\ pc[1] = "done"
  /\ TenantFound(tenant[1])
  /\ reqProps[1] = [path |-> "rebased", originalUrl |-> "rebased",
                    others |-> "received"]
  /\ Len(nextCalls[1]) = 1

\* every pass comes to its end once its strategy and store calls settle
PassTerminates == <>(pc[1] = "done")

====
